---- MODULE Spec2Model ----
(***************************************************************************)
(* Verification model of the validation-with-decorators example of        *)
(* src/src/decorators.ts: the registry registeredValidators, the property *)
(* decorators Required and PositiveNumber, the function validate, the     *)
(* class Course and the submit handler of the course form; of the class   *)
(* Product and its logging decorators in the same file; of the class      *)
(* DataStorage of src/src/generics.ts; and of the class SalesDepartment.  *)
(***************************************************************************)
EXTENDS Integers, Sequences, FiniteSets, TLC

\* Bound on the number of rules held by the registry over all types and fields.
MaxRegistrations == 2

\* Bound on the number of form submissions.
MaxSubmits == 4

\* Bound on the number of Product instances created.
MaxProducts == 2

\* Bound on the length of the arrays of a DataStorage and of its clients.
MaxItems == 3

\* Bound on the number of reports of a SalesDepartment, and on the number of
\* SalesDepartment objects.
MaxReports == 3

\* Names of classes that carry decorated properties.
TypeNames == {"Course", "Other"}

\* Property names that every plain object inherits from Object.prototype.
ObjectPrototypeKeys == {"toString", "valueOf"}

\* Names of decorated properties (one of them shadows an inherited name).
PropNames == {"title", "price", "toString"}

\* Own data properties a validated object carries.
OwnPropNames == {"title", "price"}

\* Constructor names of validated objects.
ConstructorNames == TypeNames \cup {"valueOf"}

----------------------------------------------------------------------------
\* JavaScript values.  A string is the sequence of its characters.

Undefined == [type |-> "undefined"]
NaN == [type |-> "number", nan |-> TRUE]
Fn == [type |-> "function"]
Sym == [type |-> "symbol"]
Num(n) == [type |-> "number", num |-> n]
Str(s) == [type |-> "string", chars |-> s]
Arr(items) == [type |-> "array", items |-> items]
Obj(props) == [type |-> "object", props |-> props]

IsNaN(v) == v.type = "number" /\ "nan" \in DOMAIN v

\* Values of the own property title of validated objects.
TitleValues ==
  { Undefined, Str(<<>>), Str(<<"x">>), Str(<<"T", "S">>), Num(0) }

\* Values of the own property price of validated objects.
PriceValues ==
  { Undefined, NaN, Str(<<"5">>),
    Num(0), Num(5), Num(10), Num(-3), Num(-1) }

\* Validated objects: the constructor name and the own properties.
Candidates ==
  [constructor : ConstructorNames, title : TitleValues, price : PriceValues]

\* Validated objects whose price may be any value, a symbol included.
AnyCandidates ==
  [constructor : ConstructorNames,
   title : {Undefined, Str(<<"T", "S">>)},
   price : {Undefined, Num(10), Sym}]

\* What the user may have typed into the inputs courseTitle and price.
TitleInputs == {<<>>, <<"x">>, <<"T", "S">>}
PriceInputs == {<<>>, <<"a">>, <<"5">>, <<"1", "0">>, <<"-", "1">>}

\* A presence test in place of truthiness: everything but undefined passes.
ToBoolean_PresenceOnly(v) == v.type # "undefined"

\* !!v
ToBoolean(v) ==
  CASE v.type = "undefined" -> FALSE
    [] v.type = "string" -> Len(v.chars) > 0
    [] v.type = "number" -> IF IsNaN(v) THEN FALSE ELSE v.num # 0
    [] OTHER -> TRUE

Digits == <<"0", "1", "2", "3", "4", "5", "6", "7", "8", "9">>

IsDigit(c) == \E d \in 1..Len(Digits) : Digits[d] = c

DigitValue(c) == (CHOOSE d \in 1..Len(Digits) : Digits[d] = c) - 1

RECURSIVE DecimalValue(_, _)
DecimalValue(chars, acc) ==
  IF chars = <<>> THEN acc
  ELSE DecimalValue(Tail(chars), 10 * acc + DigitValue(Head(chars)))

\* Number(s) for a string s: the empty string is 0, an optionally signed run
\* of decimal digits is its value, any other text is NaN.
StringToNumber(chars) ==
  LET signed == chars # <<>> /\ Head(chars) \in {"-", "+"}
      body == IF signed THEN Tail(chars) ELSE chars
  IN  IF chars = <<>> THEN Num(0)
      ELSE IF body # <<>> /\ \A i \in 1..Len(body) : IsDigit(body[i])
      THEN IF signed /\ Head(chars) = "-"
           THEN Num(0 - DecimalValue(body, 0))
           ELSE Num(DecimalValue(body, 0))
      ELSE NaN

\* The numeric conversion the operator ">" applies to its left operand when
\* the right operand is a number.
ToNumber(v) ==
  CASE v.type = "number" -> v
    [] v.type = "string" -> StringToNumber(v.chars)
    [] OTHER -> NaN

\* The comparison v >= 0 in place of v > 0.
GreaterThanZero_OrEqual(v) ==
  LET n == ToNumber(v) IN (~IsNaN(n)) /\ n.num >= 0

\* v > 0
GreaterThanZero(v) ==
  LET n == ToNumber(v) IN (~IsNaN(n)) /\ n.num > 0

\* v > 0 throws a TypeError: a symbol has no numeric conversion.
ComparisonThrows(v) == v.type = "symbol"

----------------------------------------------------------------------------
\* Objects.  A plain object is the sequence of its own enumerable properties
\* in insertion order, each a pair [key, val].

HasOwn(props, k) == \E i \in 1..Len(props) : props[i].key = k

OwnIndex(props, k) == CHOOSE i \in 1..Len(props) : props[i].key = k

\* o[k] for a value o that is not undefined: an own property, else a member
\* inherited from Object.prototype, else undefined.
GetProp(o, k) ==
  IF o.type = "object" /\ HasOwn(o.props, k)
  THEN Arr(o.props[OwnIndex(o.props, k)].val)
  ELSE IF k \in ObjectPrototypeKeys THEN Fn ELSE Undefined

\* { ...o }: the own enumerable properties of o (none for undefined or a
\* function).
Spread(o) == IF o.type = "object" THEN o.props ELSE <<>>

\* { ...props, [k]: v }: k keeps its position when it is already a key.
SetProp(props, k, v) ==
  IF HasOwn(props, k)
  THEN [props EXCEPT ![OwnIndex(props, k)] = [key |-> k, val |-> v]]
  ELSE Append(props, [key |-> k, val |-> v])

\* obj[prop] for a validated object.
ObjGet(obj, prop) ==
  IF prop \in OwnPropNames THEN obj[prop]
  ELSE IF prop \in ObjectPrototypeKeys THEN Fn ELSE Undefined

----------------------------------------------------------------------------
VARIABLES
  registeredValidators,  \* type name -> own properties [key: prop, val: rules]
  call,                  \* the most recent call, its arguments and its outcome
  page,                  \* the script: its position, the submit listener of
                         \* the form, the alerts shown and the courses logged
  product,               \* the class Product: the position in its definition,
                         \* the decorators run so far, the instances created
  storage,               \* a DataStorage: the arrays on the heap (its data
                         \* and the array a client got) and the client's array
  sales                  \* the class SalesDepartment: its static instance and
                         \* the objects created

vars == <<registeredValidators, call, page, product, storage, sales>>

\* A lookup that falls back to the entry of another type when name has none.
Lookup_Fallback(registry, name) ==
  IF name \in DOMAIN registry THEN Obj(registry[name])
  ELSE IF DOMAIN registry # {}
       THEN Obj(registry[CHOOSE n \in DOMAIN registry : TRUE])
       ELSE IF name \in ObjectPrototypeKeys THEN Fn ELSE Undefined

\* registeredValidators[name]
Lookup(registry, name) ==
  IF name \in DOMAIN registry THEN Obj(registry[name])
  ELSE IF name \in ObjectPrototypeKeys THEN Fn ELSE Undefined

RECURSIVE SumLen(_)
SumLen(props) ==
  IF props = <<>> THEN 0 ELSE Len(Head(props).val) + SumLen(Tail(props))

RECURSIVE TotalRules(_, _)
TotalRules(registry, names) ==
  IF names = {} THEN 0
  ELSE LET n == CHOOSE x \in names : TRUE
       IN  SumLen(registry[n]) + TotalRules(registry, names \ {n})

Init ==
  /\ registeredValidators = [n \in {} |-> <<>>]
  /\ call = [op |-> "none"]
  /\ page = [pc |-> "Course.title", listener |-> FALSE,
             alerts |-> 0, logged |-> 0]
  /\ product = [pc |-> "Product.title", runs |-> <<>>, instances |-> <<>>]
  /\ storage = [heap |-> ("data" :> <<>>), items |-> "none"]
  /\ sales = [instance |-> 0, objects |-> <<>>]

\* The rule list a decorator reads:
\* registeredValidators[name]?.[propName] ?? []
StoredRules(registry, name, propName) ==
  LET config == Lookup(registry, name)
      stored == IF config.type = "undefined" THEN Undefined
                ELSE GetProp(config, propName)
  IN  IF stored.type = "undefined" THEN Arr(<<>>) ELSE stored

\* [tag, ...stored] in place of [...stored, tag].
AppendedRules_Prepended(stored, tag) == <<tag>> \o stored.items

\* The list left as it is when it already holds tag.
AppendedRules_Deduplicated(stored, tag) ==
  IF \E j \in 1..Len(stored.items) : stored.items[j] = tag
  THEN stored.items
  ELSE Append(stored.items, tag)

\* [...stored] with the tag forgotten.
AppendedRules_NoTag(stored, tag) == stored.items

\* [...stored, tag]
AppendedRules(stored, tag) == Append(stored.items, tag)

\* { [propName]: rules } without the spread of the previous entry.
UpdatedConfig_NoSpread(registry, name, propName, rules) ==
  SetProp(<<>>, propName, rules)

\* { ...registeredValidators[name], [propName]: rules }
UpdatedConfig(registry, name, propName, rules) ==
  SetProp(Spread(Lookup(registry, name)), propName, rules)

\* registeredValidators[name] = config
Assign(registry, name, config) ==
  [n \in DOMAIN registry \cup {name} |->
     IF n = name THEN config ELSE registry[n]]

\* The body shared by the two decorators; tag is the string each appends.
Register(op, tag, name, propName) ==
  LET stored == StoredRules(registeredValidators, name, propName)
  IN  IF stored.type # "array"
      THEN \* spreading a value that is not iterable throws
           /\ call' = [op |-> op, name |-> name, propName |-> propName,
                       outcome |-> "TypeError"]
           /\ UNCHANGED registeredValidators
      ELSE /\ registeredValidators' =
                Assign(registeredValidators, name,
                       UpdatedConfig(registeredValidators, name, propName,
                                     AppendedRules(stored, tag)))
           /\ call' = [op |-> op, name |-> name, propName |-> propName,
                       outcome |-> "return"]

\* Required with a misspelt tag.
Required_Misspelt(name, propName) ==
  /\ TotalRules(registeredValidators, DOMAIN registeredValidators)
       < MaxRegistrations
  /\ Register("Required", "require", name, propName)

Required(name, propName) ==
  /\ TotalRules(registeredValidators, DOMAIN registeredValidators)
       < MaxRegistrations
  /\ Register("Required", "required", name, propName)

PositiveNumber(name, propName) ==
  /\ TotalRules(registeredValidators, DOMAIN registeredValidators)
       < MaxRegistrations
  /\ Register("PositiveNumber", "positive", name, propName)

\* The switch with "isValid = !!obj[prop]" in the case "required": the flag is
\* overwritten instead of conjoined.
CheckValidator_Overwrite(validator, value, isValid) ==
  CASE validator = "required" -> ToBoolean(value)
    [] validator = "positive" -> isValid /\ GreaterThanZero(value)
    [] OTHER -> isValid

\* The switch with "isValid = obj[prop] > 0" in the case "positive".
CheckValidator_OverwritePositive(validator, value, isValid) ==
  CASE validator = "required" -> isValid /\ ToBoolean(value)
    [] validator = "positive" -> GreaterThanZero(value)
    [] OTHER -> isValid

\* One step of the inner loop: the switch on validator.
CheckValidator(validator, value, isValid) ==
  CASE validator = "required" -> isValid /\ ToBoolean(value)
    [] validator = "positive" -> isValid /\ GreaterThanZero(value)
    [] OTHER -> isValid

\* The inner loop left after its first validator.
CheckValidators_FirstOnly(validators, value, isValid) ==
  IF validators = <<>> THEN isValid
  ELSE CASE Head(validators) = "required" -> isValid /\ ToBoolean(value)
         [] Head(validators) = "positive" -> isValid /\ GreaterThanZero(value)
         [] OTHER -> isValid

\* for (const validator of objValidatorConfig[prop])
RECURSIVE CheckValidators(_, _, _)
CheckValidators(validators, value, isValid) ==
  IF validators = <<>> THEN isValid
  ELSE CheckValidators(Tail(validators), value,
                       CheckValidator(Head(validators), value, isValid))

\* The outer loop left after its first property.
CheckProps_FirstOnly(props, obj, isValid) ==
  IF props = <<>> THEN isValid
  ELSE CheckValidators(Head(props).val, ObjGet(obj, Head(props).key), isValid)

\* for (const prop in objValidatorConfig)
RECURSIVE CheckProps(_, _, _)
CheckProps(props, obj, isValid) ==
  IF props = <<>> THEN isValid
  ELSE CheckProps(Tail(props), obj,
                  CheckValidators(Head(props).val,
                                  ObjGet(obj, Head(props).key), isValid))

\* validate with "return false" where no entry is found.
validate_RejectUnregistered(registry, obj) ==
  LET objValidatorConfig == Lookup(registry, obj.constructor)
  IN  IF ~ToBoolean(objValidatorConfig) THEN FALSE
      ELSE CheckProps(Spread(objValidatorConfig), obj, TRUE)

\* The value validate(obj) returns for a registry.
validate(registry, obj) ==
  LET objValidatorConfig == Lookup(registry, obj.constructor)
  IN  IF ~ToBoolean(objValidatorConfig) THEN TRUE
      ELSE CheckProps(Spread(objValidatorConfig), obj, TRUE)

\* The switch throws: the case "positive" reaches the comparison (&& skips
\* it when isValid is already false) and the comparison throws.
CheckValidatorThrows(validator, value, isValid) ==
  validator = "positive" /\ isValid /\ ComparisonThrows(value)

\* The inner loop throws at one of its validators.
RECURSIVE CheckValidatorsThrow(_, _, _)
CheckValidatorsThrow(validators, value, isValid) ==
  IF validators = <<>> THEN FALSE
  ELSE \/ CheckValidatorThrows(Head(validators), value, isValid)
       \/ CheckValidatorsThrow(Tail(validators), value,
                               CheckValidator(Head(validators), value,
                                              isValid))

\* The outer loop throws at one of its properties.
RECURSIVE CheckPropsThrow(_, _, _)
CheckPropsThrow(props, obj, isValid) ==
  IF props = <<>> THEN FALSE
  ELSE \/ CheckValidatorsThrow(Head(props).val,
                               ObjGet(obj, Head(props).key), isValid)
       \/ CheckPropsThrow(Tail(props), obj,
                          CheckValidators(Head(props).val,
                                          ObjGet(obj, Head(props).key),
                                          isValid))

\* validate(obj) throws instead of returning.
validateThrows(registry, obj) ==
  LET objValidatorConfig == Lookup(registry, obj.constructor)
  IN  /\ ToBoolean(objValidatorConfig)
      /\ CheckPropsThrow(Spread(objValidatorConfig), obj, TRUE)

\* A validate that stores an empty entry for a class it finds none for.
Validate_CreatesEntry(obj) ==
  /\ call' = [op |-> "validate", obj |-> obj, after |-> obj,
              outcome |-> "return",
              value |-> validate(registeredValidators, obj)]
  /\ registeredValidators' =
       IF obj.constructor \in DOMAIN registeredValidators
       THEN registeredValidators
       ELSE Assign(registeredValidators, obj.constructor, <<>>)

\* A call validate(obj).  The function assigns to its local isValid only:
\* the object is after the call what it was before (after), and so is the
\* registry.
Validate(obj) ==
  /\ call' = IF validateThrows(registeredValidators, obj)
             THEN [op |-> "validate", obj |-> obj, after |-> obj,
                   outcome |-> "TypeError"]
             ELSE [op |-> "validate", obj |-> obj, after |-> obj,
                   outcome |-> "return",
                   value |-> validate(registeredValidators, obj)]
  /\ UNCHANGED registeredValidators

\* The decorators and validate, called in any order on any arguments.
Next ==
  \/ \E name \in TypeNames, propName \in PropNames :
       Required(name, propName) /\ UNCHANGED <<page, product, storage, sales>>
  \/ \E name \in TypeNames, propName \in PropNames :
       PositiveNumber(name, propName) /\ UNCHANGED <<page, product, storage, sales>>
  \/ \E obj \in Candidates : Validate(obj) /\ UNCHANGED <<page, product, storage, sales>>

Spec == Init /\ [][Next]_vars

\* The same calls, with validated objects of any field values.
AnyNext ==
  \/ \E name \in TypeNames, propName \in PropNames :
       Required(name, propName) /\ UNCHANGED <<page, product, storage, sales>>
  \/ \E name \in TypeNames, propName \in PropNames :
       PositiveNumber(name, propName) /\ UNCHANGED <<page, product, storage, sales>>
  \/ \E obj \in AnyCandidates : Validate(obj) /\ UNCHANGED <<page, product, storage, sales>>

AnySpec == Init /\ [][AnyNext]_vars

----------------------------------------------------------------------------
\* The script from the class Course on: the class definition applies the
\* property decorators in declaration order, then the submit listener is
\* added to the form, then the user submits the form any number of times.

\* A Course object with the given title and price.
Course(t, p) == [constructor |-> "Course", title |-> t, price |-> p]

\* @Required title
DecorateTitle ==
  /\ page.pc = "Course.title"
  /\ Required("Course", "title")
  /\ page' = [page EXCEPT !.pc = "Course.price"]

\* @PositiveNumber price
DecoratePrice ==
  /\ page.pc = "Course.price"
  /\ PositiveNumber("Course", "price")
  /\ page' = [page EXCEPT !.pc = "addEventListener"]

\* The listener added wherever the script stands, the class definition not
\* awaited.
AddEventListener_BeforeClass ==
  /\ ~page.listener
  /\ page' = [page EXCEPT !.listener = TRUE]
  /\ UNCHANGED <<registeredValidators, call>>

\* courseForm.addEventListener("submit", ...)
AddEventListener ==
  /\ page.pc = "addEventListener"
  /\ page' = [page EXCEPT !.pc = "loaded", !.listener = TRUE]
  /\ UNCHANGED <<registeredValidators, call>>

\* The handler with the "return" after the alert left out.
AfterValidation_NoReturn(isValid, p) ==
  IF ~isValid
  THEN [p EXCEPT !.alerts = @ + 1, !.logged = @ + 1]
  ELSE [p EXCEPT !.logged = @ + 1]

\* The end of the handler: alert and return when validate rejects the course,
\* console.log otherwise.
AfterValidation(isValid, p) ==
  IF ~isValid
  THEN [p EXCEPT !.alerts = @ + 1]
  ELSE [p EXCEPT !.logged = @ + 1]

\* A submit event of the form with the given texts in the two inputs.
Submit(titleValue, priceValue) ==
  LET title == Str(titleValue)
      price == StringToNumber(priceValue)
      createdCourse == Course(title, price)
  IN  /\ page.listener
      /\ page.alerts + page.logged < MaxSubmits
      /\ Validate(createdCourse)
      /\ page' = IF validateThrows(registeredValidators, createdCourse)
                 THEN page
                 ELSE AfterValidation(validate(registeredValidators,
                                               createdCourse), page)

ScriptNext ==
  \/ DecorateTitle /\ UNCHANGED <<product, storage, sales>>
  \/ DecoratePrice /\ UNCHANGED <<product, storage, sales>>
  \/ AddEventListener /\ UNCHANGED <<product, storage, sales>>
  \/ \E titleValue \in TitleInputs, priceValue \in PriceInputs :
       Submit(titleValue, priceValue) /\ UNCHANGED <<product, storage, sales>>

ScriptSpec == Init /\ [][ScriptNext]_vars

----------------------------------------------------------------------------
\* The class Product and its four logging decorators.

\* The titles and prices the constructor is called with, and the values
\* assigned to the accessor price.
ProductTitles == {"PS5", "Alienware"}

ConstructorPrices == {Num(3500), Num(0 - 1)}

PriceArguments == {Num(0 - 1), Num(0), Num(5), NaN, Str(<<"5">>), Sym}

\* One decorator applied while the class is defined: it logs its arguments
\* and returns nothing, so the member stays as declared.
Decorate(at, decorator, next) ==
  /\ product.pc = at
  /\ product' = [product EXCEPT !.pc = next, !.runs = Append(@, decorator)]
  /\ call' = [op |-> decorator, outcome |-> "return"]
  /\ UNCHANGED <<registeredValidators, page, storage, sales>>

\* @LogProperty title
LogProperty == Decorate("Product.title", "LogProperty", "Product.price")

\* @LogAccessor set price
LogAccessor ==
  Decorate("Product.price", "LogAccessor", "Product.getPriceWithtax.tax")

\* @LogParameter tax: the decorators of the parameters of a method are
\* applied before the decorator of the method.
LogParameter ==
  Decorate("Product.getPriceWithtax.tax", "LogParameter",
           "Product.getPriceWithtax")

\* @LogMethod getPriceWithtax
LogMethod == Decorate("Product.getPriceWithtax", "LogMethod", "defined")

\* A constructor that applies the property decorator to the new instance.
NewProduct_Redecorated(t, p) ==
  /\ product.pc = "defined"
  /\ Len(product.instances) < MaxProducts
  /\ product' = [product EXCEPT
                   !.instances = Append(@, [title |-> t, _price |-> p]),
                   !.runs = Append(@, "LogProperty")]
  /\ call' = [op |-> "new Product", outcome |-> "return",
              value |-> Len(product.instances) + 1]
  /\ UNCHANGED <<registeredValidators, page, storage, sales>>

\* new Product(t, p): the constructor assigns title and _price; it does not
\* go through the accessor price.
NewProduct(t, p) ==
  /\ product.pc = "defined"
  /\ Len(product.instances) < MaxProducts
  /\ product' = [product EXCEPT
                   !.instances = Append(@, [title |-> t, _price |-> p])]
  /\ call' = [op |-> "new Product", outcome |-> "return",
              value |-> Len(product.instances) + 1]
  /\ UNCHANGED <<registeredValidators, page, storage, sales>>

InvalidPrice == "Invalid price - it should be a positive value!"

\* A setter that assigns before it tests.
SetPrice_AssignFirst(this, val) ==
  /\ this \in 1..Len(product.instances)
  /\ product' = [product EXCEPT !.instances[this]._price = val]
  /\ call' = [op |-> "set price", this |-> this, val |-> val,
              outcome |-> IF ComparisonThrows(val) THEN "TypeError"
                          ELSE IF GreaterThanZero(val) THEN "return"
                          ELSE "Error",
              message |-> InvalidPrice]
  /\ UNCHANGED <<registeredValidators, page, storage, sales>>

\* instances[this].price = val
SetPrice(this, val) ==
  /\ this \in 1..Len(product.instances)
  /\ IF ComparisonThrows(val)
     THEN /\ call' = [op |-> "set price", this |-> this, val |-> val,
                      outcome |-> "TypeError"]
          /\ UNCHANGED product
     ELSE IF GreaterThanZero(val)
     THEN /\ product' = [product EXCEPT !.instances[this]._price = val]
          /\ call' = [op |-> "set price", this |-> this, val |-> val,
                      outcome |-> "return"]
     ELSE /\ call' = [op |-> "set price", this |-> this, val |-> val,
                      outcome |-> "Error", message |-> InvalidPrice]
          /\ UNCHANGED product
  /\ UNCHANGED <<registeredValidators, page, storage, sales>>

\* The class definition, then constructor calls and assignments to price in
\* any order.
ProductNext ==
  \/ LogProperty
  \/ LogAccessor
  \/ LogParameter
  \/ LogMethod
  \/ \E t \in ProductTitles, p \in ConstructorPrices : NewProduct(t, p)
  \/ \E this \in 1..MaxProducts, val \in PriceArguments : SetPrice(this, val)

ProductSpec == Init /\ [][ProductNext]_vars

----------------------------------------------------------------------------
\* The class DataStorage of generics.ts.  Arrays live on a heap, so that an
\* array can be told from a copy of it: "data" is the private array of the
\* storage, "copy" the array the most recent getItems created.

\* Two objects of the same shape are two items: an object is compared by
\* reference.
Shirt == [type |-> "object", ref |-> 1, name |-> "shirt"]
OtherShirt == [type |-> "object", ref |-> 2, name |-> "shirt"]

StorageItems == {Str(<<"X", "b", "o", "x">>), NaN, Shirt, OtherShirt}

\* a === b
StrictEquals(a, b) == a = b /\ ~IsNaN(a)

\* arr.indexOf(item): the zero-based index of the first element strictly
\* equal to item, -1 when there is none.
IndexOf(arr, item) ==
  IF \E i \in 1..Len(arr) : StrictEquals(arr[i], item)
  THEN (CHOOSE i \in 1..Len(arr) :
          /\ StrictEquals(arr[i], item)
          /\ \A j \in 1..(i - 1) : ~StrictEquals(arr[j], item)) - 1
  ELSE 0 - 1

\* arr.splice(start, 1): a negative start counts from the end of the array.
Splice(arr, start) ==
  LET from == IF start < 0
              THEN (IF Len(arr) + start < 0 THEN 0 ELSE Len(arr) + start)
              ELSE (IF start > Len(arr) THEN Len(arr) ELSE start)
  IN  IF from >= Len(arr) THEN arr
      ELSE SubSeq(arr, 1, from) \o SubSeq(arr, from + 2, Len(arr))

addItem(data, item) == Append(data, item)

\* removeItem without the test of the index.
removeItem_NoGuard(data, item) == Splice(data, IndexOf(data, item))

removeItem(data, item) ==
  IF IndexOf(data, item) = 0 - 1
  THEN data
  ELSE Splice(data, IndexOf(data, item))

\* A getItems that returns the private array itself.
getItems_Alias(heap) == [ref |-> "data", heap |-> heap]

\* getItems: a new array with the elements of data.
getItems(heap) == [ref |-> "copy", heap |-> ("copy" :> heap["data"]) @@ heap]

AddItem(item) ==
  /\ Len(storage.heap["data"]) < MaxItems
  /\ storage' = [storage EXCEPT !.heap["data"] = addItem(@, item)]
  /\ call' = [op |-> "addItem", item |-> item, outcome |-> "return"]
  /\ UNCHANGED <<registeredValidators, page, product, sales>>

RemoveItem(item) ==
  /\ storage' = [storage EXCEPT !.heap["data"] = removeItem(@, item)]
  /\ call' = [op |-> "removeItem", item |-> item, outcome |-> "return",
              index |-> IndexOf(storage.heap["data"], item)]
  /\ UNCHANGED <<registeredValidators, page, product, sales>>

\* const items = storage.getItems()
GetItems ==
  LET got == getItems(storage.heap)
  IN  /\ storage' = [heap |-> got.heap, items |-> got.ref]
      /\ call' = [op |-> "getItems", outcome |-> "return",
                  value |-> got.heap[got.ref]]
      /\ UNCHANGED <<registeredValidators, page, product, sales>>

\* The caller changes the array it got: items.push(item), items.pop().
Push(item) ==
  /\ storage.items # "none"
  /\ Len(storage.heap[storage.items]) < MaxItems
  /\ storage' = [storage EXCEPT !.heap[storage.items] = Append(@, item)]
  /\ call' = [op |-> "push", item |-> item, outcome |-> "return"]
  /\ UNCHANGED <<registeredValidators, page, product, sales>>

Pop ==
  /\ storage.items # "none"
  /\ storage.heap[storage.items] # <<>>
  /\ storage' = [storage EXCEPT
                   !.heap[storage.items] = SubSeq(@, 1, Len(@) - 1)]
  /\ call' = [op |-> "pop", outcome |-> "return"]
  /\ UNCHANGED <<registeredValidators, page, product, sales>>

StorageNext ==
  \/ \E item \in StorageItems : AddItem(item)
  \/ \E item \in StorageItems : RemoveItem(item)
  \/ GetItems
  \/ \E item \in StorageItems : Push(item)
  \/ Pop

StorageSpec == Init /\ [][StorageNext]_vars

----------------------------------------------------------------------------
\* The class SalesDepartment: the static field instance (0 while it is
\* undefined, otherwise the position of the object in sales.objects) and the
\* fields reports and lastReport of each object.

\* The texts passed as reports; the first one is the empty string.
ReportTexts == {Str(<<>>), Str(<<"a">>), Str(<<"b">>)}

NoReportFound == "No report found!"

PleasePassInAReport == "Please pass in a report."

\* reports[0]
First(reports) == IF reports = <<>> THEN Undefined ELSE reports[1]

\* new SalesDepartment(id, reports)
SalesDepartment(id, reports) ==
  [id |-> id, name |-> "Sales", reports |-> reports,
   lastReport |-> First(reports)]

\* A getInstance that creates an object on every call.
getInstance_AlwaysNew(s) ==
  IF Len(s.objects) < MaxReports
  THEN [instance |-> Len(s.objects) + 1,
        objects |-> Append(s.objects, SalesDepartment("789", <<>>))]
  ELSE s

\* The class after SalesDepartment.getInstance(); the call returns its
\* field instance.
getInstance(s) ==
  IF s.instance # 0
  THEN s
  ELSE [instance |-> Len(s.objects) + 1,
        objects |-> Append(s.objects, SalesDepartment("789", <<>>))]

GetInstance ==
  /\ sales' = getInstance(sales)
  /\ call' = [op |-> "getInstance", outcome |-> "return",
              value |-> sales'.instance]
  /\ UNCHANGED <<registeredValidators, page, product, storage>>

\* The object after addReport(text).
addReport(o, text) ==
  [o EXCEPT !.reports = Append(@, text), !.lastReport = text]

AddReport(this, text) ==
  /\ this \in 1..Len(sales.objects)
  /\ Len(sales.objects[this].reports) < MaxReports
  /\ sales' = [sales EXCEPT !.objects[this] = addReport(@, text)]
  /\ call' = [op |-> "addReport", this |-> this, text |-> text,
              outcome |-> "return"]
  /\ UNCHANGED <<registeredValidators, page, product, storage>>

\* A read of this.mostRecentReport.
GetMostRecentReport(this) ==
  /\ this \in 1..Len(sales.objects)
  /\ call' = IF ToBoolean(sales.objects[this].lastReport)
             THEN [op |-> "get mostRecentReport", this |-> this,
                   outcome |-> "return",
                   value |-> sales.objects[this].lastReport]
             ELSE [op |-> "get mostRecentReport", this |-> this,
                   outcome |-> "Error", message |-> NoReportFound]
  /\ UNCHANGED <<registeredValidators, page, product, storage, sales>>

\* A setter that adds whatever it is given.
SetMostRecentReport_NoCheck(this, report) ==
  /\ this \in 1..Len(sales.objects)
  /\ Len(sales.objects[this].reports) < MaxReports
  /\ sales' = [sales EXCEPT !.objects[this] = addReport(@, report)]
  /\ call' = [op |-> "set mostRecentReport", this |-> this,
              report |-> report, outcome |-> "return"]
  /\ UNCHANGED <<registeredValidators, page, product, storage>>

\* this.mostRecentReport = report
SetMostRecentReport(this, report) ==
  /\ this \in 1..Len(sales.objects)
  /\ IF ~ToBoolean(report)
     THEN /\ call' = [op |-> "set mostRecentReport", this |-> this,
                      report |-> report, outcome |-> "Error",
                      message |-> PleasePassInAReport]
          /\ UNCHANGED sales
     ELSE /\ Len(sales.objects[this].reports) < MaxReports
          /\ sales' = [sales EXCEPT !.objects[this] = addReport(@, report)]
          /\ call' = [op |-> "set mostRecentReport", this |-> this,
                      report |-> report, outcome |-> "return"]
  /\ UNCHANGED <<registeredValidators, page, product, storage>>

SalesNext ==
  \/ GetInstance
  \/ \E this \in 1..MaxReports, text \in ReportTexts : AddReport(this, text)
  \/ \E this \in 1..MaxReports : GetMostRecentReport(this)
  \/ \E this \in 1..MaxReports, report \in ReportTexts :
       SetMostRecentReport(this, report)

SalesSpec == Init /\ [][SalesNext]_vars

----------------------------------------------------------------------------
\* Vocabulary of the properties.

IsRegistration == call.op \in {"Required", "PositiveNumber"}

IsValidation == call.op = "validate"

\* The tag a decorator appends.
TagOf(op) == IF op = "Required" THEN "required" ELSE "positive"

\* The rule list stored for (name, propName), empty when there is none.
RulesOf(registry, name, propName) ==
  IF name \in DOMAIN registry /\ HasOwn(registry[name], propName)
  THEN registry[name][OwnIndex(registry[name], propName)].val
  ELSE <<>>

\* The properties that have a rule list under name.
KeysOf(registry, name) ==
  IF name \in DOMAIN registry
  THEN {registry[name][i].key : i \in 1..Len(registry[name])}
  ELSE {}

IsPrefix(s, t) == Len(s) <= Len(t) /\ SubSeq(t, 1, Len(s)) = s

\* What one rule demands of a value.
RuleHolds(rule, value) ==
  /\ rule = "required" => ToBoolean(value)
  /\ rule = "positive" => GreaterThanZero(value)

\* Every rule of every field registered under the object's type name holds.
AllRulesHold(registry, obj) ==
  \A propName \in KeysOf(registry, obj.constructor) :
    LET rules == RulesOf(registry, obj.constructor, propName)
    IN  \A j \in 1..Len(rules) : RuleHolds(rules[j], ObjGet(obj, propName))

\* C1: validate returns true exactly when every rule of every field
\* registered under the candidate's type name holds for the candidate's value
\* of that field, and false otherwise.
C1_ValidateIsConjunction ==
  IsValidation =>
    (call.value = AllRulesHold(registeredValidators, call.obj))

\* A validation that fails although the rule evaluated last holds: an earlier
\* rule of another field is the one that fails.
C1_Witness ==
  /\ IsValidation
  /\ call.value = FALSE
  /\ call.obj.constructor \in DOMAIN registeredValidators
  /\ LET config == registeredValidators[call.obj.constructor]
     IN  /\ Len(config) = 2
         /\ ~RuleHolds(config[1].val[1], ObjGet(call.obj, config[1].key))
         /\ RuleHolds(config[2].val[1], ObjGet(call.obj, config[2].key))

\* C2: validate returns true for every candidate whose type name has no
\* entry in the registry, whatever its field values are.
C2_UnregisteredTypeIsValid ==
  (IsValidation /\ call.obj.constructor \notin DOMAIN registeredValidators)
    => call.value = TRUE

\* A candidate of an unregistered type with an empty title and a negative
\* price is validated while another type has rules registered.
C2_Witness ==
  /\ IsValidation
  /\ call.obj.constructor \notin DOMAIN registeredValidators
  /\ DOMAIN registeredValidators # {}
  /\ call.obj.title = Str(<<>>)
  /\ call.obj.price = Num(-3)
  /\ call.value = TRUE

\* The registry entry of a type whose only rule list is rules on propName.
OnlyField(propName, rules) == <<[key |-> propName, val |-> rules]>>

\* The last call validated an object whose type has exactly the entry config.
ValidatedUnder(config) ==
  /\ IsValidation
  /\ call.obj.constructor \in DOMAIN registeredValidators
  /\ registeredValidators[call.obj.constructor] = config

\* The values that are not truthy.
FalsyValues == {Undefined, Str(<<>>), Num(0), NaN}

\* C3: when Required is the only rule registered on field f of a type,
\* validate of a candidate of that type returns true iff the value of f is
\* truthy: the empty string, undefined and zero give false, "x" gives true.
C3_RequiredAlone ==
  \A f \in PropNames :
    ValidatedUnder(OnlyField(f, <<"required">>)) =>
      (call.value = (ObjGet(call.obj, f) \notin FalsyValues))

\* Required is the only rule on title and a candidate with an empty title is
\* rejected.
C3_Witness ==
  /\ ValidatedUnder(OnlyField("title", <<"required">>))
  /\ call.obj.title = Str(<<>>)
  /\ call.value = FALSE

\* C4: when PositiveNumber is the only rule registered on field f of a type,
\* validate returns true for a numeric value v of f iff v is strictly greater
\* than zero: 5 gives true, 0 and -3 give false.
C4_PositiveAloneOnNumbers ==
  \A f \in PropNames :
    (/\ ValidatedUnder(OnlyField(f, <<"positive">>))
     /\ ObjGet(call.obj, f).type = "number")
      => (call.value = (/\ ObjGet(call.obj, f) # NaN
                        /\ ObjGet(call.obj, f).num > 0))

\* PositiveNumber is the only rule on price and a candidate with price 5 is
\* accepted.
C4_Witness ==
  /\ ValidatedUnder(OnlyField("price", <<"positive">>))
  /\ call.obj.price = Num(5)
  /\ call.value = TRUE

\* C5: when PositiveNumber is registered on field f, validate returns false
\* for every candidate whose value of f is not a number, the string "5"
\* included.
C5_PositiveRejectsNonNumbers ==
  \A f \in PropNames :
    (/\ IsValidation
     /\ \E j \in 1..Len(RulesOf(registeredValidators,
                                 call.obj.constructor, f)) :
          RulesOf(registeredValidators, call.obj.constructor, f)[j]
            = "positive"
     /\ ObjGet(call.obj, f).type # "number")
      => call.value = FALSE

\* The registry that holds nothing but one rule on one field of one type.
SingleRule(name, propName, rule) == name :> OnlyField(propName, <<rule>>)

\* C6: when both Required and PositiveNumber are registered on the same field
\* f, validate returns the conjunction of the two checks on f; a candidate
\* with f = 0 is rejected.
C6_BothRulesConjoin ==
  \A f \in PropNames :
    \A rules \in {<<"required", "positive">>, <<"positive", "required">>} :
      ValidatedUnder(OnlyField(f, rules)) =>
        /\ call.value =
             (/\ validate(SingleRule(call.obj.constructor, f, "required"),
                          call.obj)
              /\ validate(SingleRule(call.obj.constructor, f, "positive"),
                          call.obj))
        /\ (ObjGet(call.obj, f) = Num(0) => call.value = FALSE)

\* Required and then PositiveNumber are registered on price and a candidate
\* with price 0 is rejected.
C6_Witness ==
  /\ ValidatedUnder(OnlyField("price", <<"required", "positive">>))
  /\ call.obj.price = Num(0)
  /\ call.value = FALSE

\* The registry entry the declaration of the class Course produces: Required
\* on title, then PositiveNumber on price.
CourseConfig ==
  <<[key |-> "title", val |-> <<"required">>],
    [key |-> "price", val |-> <<"positive">>]>>

\* C7: for the class Course as declared, validate returns true for
\* {title: "TS", price: 10}, false for {title: "", price: 10} and false for
\* {title: "TS", price: -1}.
C7_CourseScenario ==
  ValidatedUnder(CourseConfig) =>
    /\ call.obj = Course(Str(<<"T", "S">>), Num(10)) => call.value = TRUE
    /\ call.obj = Course(Str(<<>>), Num(10)) => call.value = FALSE
    /\ call.obj = Course(Str(<<"T", "S">>), Num(-1)) => call.value = FALSE

\* The Course {title: "TS", price: -1} is validated under the declared rules
\* and rejected.
C7_Witness ==
  /\ ValidatedUnder(CourseConfig)
  /\ call.obj = Course(Str(<<"T", "S">>), Num(-1))
  /\ call.value = FALSE

\* C8: the rule list stored for a (type, field) only grows by appending: in
\* every step the list before is a prefix of the list after, and no stored
\* list disappears.
C8_RuleListsOnlyGrow ==
  [][\/ registeredValidators' = registeredValidators
     \/ \A name \in TypeNames, propName \in PropNames :
          /\ IsPrefix(RulesOf(registeredValidators, name, propName),
                      RulesOf(registeredValidators', name, propName))
          /\ propName \in KeysOf(registeredValidators, name)
               => propName \in KeysOf(registeredValidators', name)]_vars

\* A registration has just appended to a rule list that was not empty.
C8_Witness ==
  /\ IsRegistration
  /\ call.outcome = "return"
  /\ Len(RulesOf(registeredValidators, call.name, call.propName)) >= 2

\* C9: a registration of rule r on field f of type T always succeeds and
\* leaves registry[T][f] equal to its previous list (empty when T or f had no
\* entry) with r appended as the last element.
C9_RegistrationAlwaysAppends ==
  [][call'.op \in {"Required", "PositiveNumber"} =>
       /\ call'.outcome = "return"
       /\ call'.propName \in KeysOf(registeredValidators', call'.name)
       /\ RulesOf(registeredValidators', call'.name, call'.propName)
            = Append(RulesOf(registeredValidators, call'.name,
                             call'.propName),
                     TagOf(call'.op))]_vars

\* C10: a registration on field f of type T leaves unchanged the rule list of
\* every other field of T and the whole entry of every other type; no type
\* entry and no field entry is ever removed from the registry.
C10_RegistrationFrame ==
  [][\/ registeredValidators' = registeredValidators
     \/ /\ call'.op \in {"Required", "PositiveNumber"} =>
             /\ \A name \in DOMAIN registeredValidators \ {call'.name} :
                  registeredValidators'[name] = registeredValidators[name]
             /\ \A propName \in PropNames \ {call'.propName} :
                  RulesOf(registeredValidators', call'.name, propName)
                    = RulesOf(registeredValidators, call'.name, propName)
             /\ KeysOf(registeredValidators', call'.name) \ {call'.propName}
                  = KeysOf(registeredValidators, call'.name)
                      \ {call'.propName}
        /\ DOMAIN registeredValidators \subseteq DOMAIN registeredValidators'
        /\ \A name \in DOMAIN registeredValidators :
             KeysOf(registeredValidators, name)
               \subseteq KeysOf(registeredValidators', name)]_vars

\* A registration has just returned for a field of a type that already had a
\* rule list on another field.
C10_Witness ==
  /\ IsRegistration
  /\ call.outcome = "return"
  /\ KeysOf(registeredValidators, call.name) \ {call.propName} # {}

----------------------------------------------------------------------------
\* Registration order.

\* The registry a decorator call appending tag leaves behind; a call that
\* throws leaves the registry as it was.
Registered(registry, tag, name, propName) ==
  LET stored == StoredRules(registry, name, propName)
  IN  IF stored.type # "array" THEN registry
      ELSE Assign(registry, name,
                  UpdatedConfig(registry, name, propName,
                                AppendedRules(stored, tag)))

\* The (type, field, rule) triples of one rule list.
RuleTriples(name, propName, rules) ==
  [j \in 1..Len(rules) |->
     [name |-> name, propName |-> propName, tag |-> rules[j]]]

RECURSIVE ConfigTriples(_, _)
ConfigTriples(name, props) ==
  IF props = <<>> THEN <<>>
  ELSE RuleTriples(name, Head(props).key, Head(props).val)
         \o ConfigTriples(name, Tail(props))

\* The (type, field, rule) triples a registry holds, each as often as it is
\* held.
RECURSIVE Triples(_, _)
Triples(registry, names) ==
  IF names = {} THEN <<>>
  ELSE LET n == CHOOSE x \in names : TRUE
       IN  ConfigTriples(n, registry[n]) \o Triples(registry, names \ {n})

Orders(n) ==
  {f \in [1..n -> 1..n] : \A i, j \in 1..n : i # j => f[i] # f[j]}

\* The registry after the registrations triples[order[i]], ..., made in this
\* order on registry.
RECURSIVE Replay(_, _, _, _)
Replay(registry, triples, order, i) ==
  IF i > Len(triples) THEN registry
  ELSE Replay(Registered(registry, triples[order[i]].tag,
                         triples[order[i]].name, triples[order[i]].propName),
              triples, order, i + 1)

EmptyRegistry == [n \in {} |-> <<>>]

\* The registries that registering the triples of registry in any order
\* produces, when every one of the registrations is made.
Reorderings(registry) ==
  LET triples == Triples(registry, DOMAIN registry)
      results == {Replay(EmptyRegistry, triples, order, 1) :
                    order \in Orders(Len(triples))}
  IN  {r \in results : TotalRules(r, DOMAIN r) = Len(triples)}

Count(rules, tag) == Cardinality({j \in 1..Len(rules) : rules[j] = tag})

OnlyType(registry, name) ==
  [n \in DOMAIN registry \cap {name} |-> registry[n]]

\* C18: validate consults only the rules registered under the candidate's
\* own constructor name: what is registered under any other type name never
\* changes the result, so an instance of a differently named class is not
\* checked against the rules of Course.
C18_OnlyOwnTypeConsulted ==
  IsValidation =>
    (call.value = validate(OnlyType(registeredValidators,
                                    call.obj.constructor),
                           call.obj))

\* An object of another class with an empty title is accepted while Required
\* is registered on title of Course.
C18_Witness ==
  /\ IsValidation
  /\ call.obj.constructor = "Other"
  /\ call.obj.title = Str(<<>>)
  /\ "Other" \notin DOMAIN registeredValidators
  /\ RulesOf(registeredValidators, "Course", "title") = <<"required">>
  /\ call.value = TRUE

\* C19: in every registry state reached through the decorators every type
\* entry has at least one field and every field's rule list is non-empty.
C19_NoEmptyEntries ==
  \A name \in DOMAIN registeredValidators :
    /\ Len(registeredValidators[name]) >= 1
    /\ \A i \in 1..Len(registeredValidators[name]) :
         Len(registeredValidators[name][i].val) >= 1

\* Two registrations have built an entry with two fields.
C19_Witness ==
  /\ IsRegistration
  /\ call.outcome = "return"
  /\ Len(registeredValidators[call.name]) = 2

C13_ValidateIsPureRead ==
  [][call'.op = "validate" =>
       /\ registeredValidators' = registeredValidators
       /\ call'.after = call'.obj]_vars

\* A candidate has been validated and rejected under the rules of its class,
\* the only class that has any.
C13_Witness ==
  /\ IsValidation
  /\ call.value = FALSE
  /\ call.after = call.obj
  /\ DOMAIN registeredValidators = {call.obj.constructor}

\* C14: validate never raises an exception: for every registry state and
\* every candidate object it returns a boolean.
C14_ValidateNeverThrows ==
  IsValidation => (call.outcome = "return" /\ call.value \in BOOLEAN)

\* The candidate has no own property propName.
Lacks(obj, propName) ==
  propName \notin OwnPropNames \/ obj[propName] = Undefined

\* C15: a candidate that lacks a field on which Required or PositiveNumber is
\* registered is rejected with the same plain false as a candidate whose
\* field is present but invalid.
C15_MissingFieldRejected ==
  \A propName \in PropNames :
    (/\ IsValidation
     /\ RulesOf(registeredValidators, call.obj.constructor, propName) # <<>>
     /\ Lacks(call.obj, propName))
      => call.value = FALSE

\* C16: all registrations for Course happen at class-definition time, before
\* the submit handler is installed and so before the first validate call;
\* the registry is the same at every validate call.
C16_RegistrationsBeforeValidation ==
  /\ IsValidation => page.listener
  /\ page.listener => registeredValidators = ("Course" :> CourseConfig)

\* The handler has validated a course for the second time.
C16_Witness ==
  /\ IsValidation
  /\ page.alerts + page.logged >= 2

\* C17: on every form submission, when validate rejects the created Course
\* the handler shows the alert and returns without logging the course, and
\* when validate accepts it the course is logged and no alert is shown;
\* exactly one of the two happens per submission.
C17_AlertOrLog ==
  [][call'.op = "validate" =>
       IF call'.value
       THEN page'.logged = page.logged + 1 /\ page'.alerts = page.alerts
       ELSE page'.alerts = page.alerts + 1 /\ page'.logged = page.logged]_vars

\* One submission has been rejected with the alert and another one logged.
C17_Witness ==
  /\ IsValidation
  /\ page.alerts >= 1
  /\ page.logged >= 1

----------------------------------------------------------------------------
\* Claims about the class Product.

ProductDecorators ==
  <<"LogProperty", "LogAccessor", "LogParameter", "LogMethod">>

\* C21: a property, accessor, method or parameter decorator of a class runs
\* exactly once, when the class is defined and before any instance exists;
\* creating Product instances afterwards never runs the decorators again.
C21_DecoratorsRunOnce ==
  /\ \A d \in {"LogProperty", "LogAccessor", "LogParameter", "LogMethod"} :
       Count(product.runs, d) <= 1
  /\ product.instances # <<>> => product.runs = ProductDecorators
  /\ product.pc = "defined" => product.runs = ProductDecorators

\* Two instances of Product have been created.
C21_Witness ==
  /\ Len(product.instances) >= 2
  /\ call.op = "new Product"

\* val <= 0
LessOrEqualZero(v) ==
  /\ ~ComparisonThrows(v)
  /\ ~IsNaN(ToNumber(v))
  /\ ToNumber(v).num <= 0

\* C22: the price setter of Product stores val in _price when val > 0; for
\* every val <= 0 it throws the "Invalid price" error and leaves _price
\* unchanged.
C22_PriceSetter ==
  [][call'.op = "set price" =>
       LET this == call'.this
           val == call'.val
       IN  /\ (~ComparisonThrows(val) /\ GreaterThanZero(val)) =>
                /\ call'.outcome = "return"
                /\ product'.instances[this]._price = val
           /\ LessOrEqualZero(val) =>
                /\ call'.outcome = "Error"
                /\ call'.message = InvalidPrice
                /\ product' = product]_vars

\* A price has been stored through the setter and a later assignment of a
\* value that is not positive has been refused.
C22_Witness ==
  /\ call.op = "set price"
  /\ call.outcome = "Error"
  /\ LessOrEqualZero(call.val)
  /\ \E i \in 1..Len(product.instances) :
       product.instances[i]._price = Num(5)

----------------------------------------------------------------------------
\* Claims about the class DataStorage.

\* The items the storage holds.
Stored == storage.heap["data"]

\* item is one of the elements of arr.
IsIn(item, arr) == \E i \in 1..Len(arr) : arr[i] = item

\* arr without its first occurrence of item.
WithoutFirst(arr, item) ==
  LET first == CHOOSE i \in 1..Len(arr) :
                 /\ arr[i] = item
                 /\ \A j \in 1..(i - 1) : arr[j] # item
  IN  SubSeq(arr, 1, first - 1) \o SubSeq(arr, first + 1, Len(arr))

\* C23: removeItem called with an item that is not in the storage leaves the
\* stored items unchanged; in particular it never removes the last element.
C23_RemoveAbsentIsNoOp ==
  [][(call'.op = "removeItem" /\ ~IsIn(call'.item, Stored)) =>
       storage' = storage]_vars

\* An item the storage does not hold has been removed from a storage of two
\* or more items.
C23_Witness ==
  /\ call.op = "removeItem"
  /\ call.index = 0 - 1
  /\ ~IsIn(call.item, Stored)
  /\ Len(Stored) >= 2

\* C24: getItems returns the items in insertion order, where each addItem
\* appended its item at the end and each removeItem of a present item deleted
\* exactly one occurrence, the first one, keeping the order of all others.
C24_InsertionOrder ==
  [][/\ call'.op = "addItem" =>
          storage'.heap["data"] = Append(Stored, call'.item)
     /\ (call'.op = "removeItem" /\ IsIn(call'.item, Stored)) =>
          storage'.heap["data"] = WithoutFirst(Stored, call'.item)
     /\ call'.op = "getItems" =>
          call'.value = Stored /\ storage'.heap["data"] = Stored]_vars

\* C25: getItems returns a copy: adding elements to the returned array or
\* removing elements from it never changes the items held by the storage,
\* nor the result of a later getItems.
C25_GetItemsReturnsCopy ==
  [][/\ call'.op \in {"push", "pop"} => storage'.heap["data"] = Stored
     /\ call'.op = "getItems" => call'.value = Stored]_vars

\* The caller has changed the array it got from a storage that holds items.
C25_Witness ==
  /\ call.op \in {"push", "pop"}
  /\ Stored # <<>>
  /\ storage.heap[storage.items] # Stored

----------------------------------------------------------------------------
\* Claims about the class SalesDepartment.

\* C26: SalesDepartment is a singleton: over any sequence of getInstance
\* calls at most one SalesDepartment instance is ever created, and every call
\* returns that same instance.
C26_Singleton ==
  /\ Len(sales.objects) <= 1
  /\ sales.instance = Len(sales.objects)
  /\ call.op = "getInstance" => call.value = 1

\* getInstance has been called on the class whose instance already holds
\* reports, so not for the first time.
C26_Witness ==
  /\ call.op = "getInstance"
  /\ sales.objects[1].reports # <<>>

\* C27: reading mostRecentReport throws "No report found!" as long as no
\* report has been added, and after at least one addReport or setter
\* assignment it returns the text of the most recently added report.
C27_MostRecentReport ==
  call.op = "get mostRecentReport" =>
    LET reports == sales.objects[call.this].reports
    IN  IF reports = <<>>
        THEN call.outcome = "Error" /\ call.message = NoReportFound
        ELSE call.outcome = "return" /\ call.value = reports[Len(reports)]

\* C28: assigning an empty report to mostRecentReport throws "Please pass in
\* a report." and leaves reports and lastReport unchanged; assigning a
\* non-empty report appends it to reports and makes it the last report.
C28_ReportSetter ==
  [][call'.op = "set mostRecentReport" =>
       LET this == call'.this
           report == call'.report
       IN  IF report = Str(<<>>)
           THEN /\ call'.outcome = "Error"
                /\ call'.message = PleasePassInAReport
                /\ sales' = sales
           ELSE /\ call'.outcome = "return"
                /\ sales'.objects[this].reports =
                     Append(sales.objects[this].reports, report)
                /\ sales'.objects[this].lastReport = report]_vars

\* An empty report has been refused by the setter of a department that has
\* reports.
C28_Witness ==
  /\ call.op = "set mostRecentReport"
  /\ call.outcome = "Error"
  /\ Len(sales.objects[call.this].reports) >= 2
  /\ sales.objects[call.this].lastReport = Str(<<"b">>)

====
